---- MODULE Spec2Model ----
(***************************************************************************)
(* The session/room coordinator of backend-server.js: the players and      *)
(* rooms Maps, the socket.io event handlers that mutate them, the room     *)
(* subscriptions of the transport the handlers drive with socket.join and  *)
(* socket.leave, the games Map of save-game and get-games, and the idle    *)
(* reaper.  Every handler and every reaper tick is one step: Node runs     *)
(* each callback to completion.  SpecLoop takes the callbacks that touch   *)
(* both registries one statement at a time instead.                        *)
(***************************************************************************)
EXTENDS Integers, Sequences, FiniteSets, TLC

VARIABLES
    players,   \* Map socket.id -> player object            (line 22)
    rooms,     \* Map roomId -> Set of socket ids           (line 23)
    conn,      \* per socket: "new", "open" or "closed"     (line 81, 243)
    subs,      \* per socket: the transport rooms it joined (line 115, 128, 160)
    now,       \* the value Date.now() returns
    nextReap,  \* earliest time of the next reaper callback (line 292)
    out,       \* the events emitted by the last callback, in order
    ev,        \* the last callback: its event, socket, argument, entry room
    games,     \* Map gameId -> game, in insertion order     (line 24)
    run        \* the callback on the stack while it is looked at statement
               \* by statement, [op |-> "none"] otherwise

vars == <<players, rooms, conn, subs, now, nextReap, out, ev, games, run>>

---------------------------------------------------------------------------
(* Bounds of the model *)

\* number of one-millisecond clock steps within one reaper period
MaxSmall == 1
\* number of period-long clock steps
MaxBig == 1
\* chat texts run up to MaxChat + MaxExtra units
MaxExtra == 1

---------------------------------------------------------------------------
(* Program constants *)

\* Math.min(750, ...) of player-move
MaxX == 750
\* Math.min(350, ...) of player-move
MaxY == 350
\* x of a newly registered player
StartX == 50
\* y of a newly registered player
StartY == 300
\* slice(0, 200) of chat-message
MaxChat == 200
\* const timeout = 5 * 60 * 1000
Timeout == 5 * 60 * 1000
\* the period given to setInterval
ReapInterval == 5 * 60 * 1000

---------------------------------------------------------------------------
(* JavaScript values *)

Null == "<null>"
Undefined == "<undefined>"

\* a number, NaN, undefined, null, or a string that is not a numeral
Num(n) == [k |-> "num", n |-> n]
NaN == [k |-> "nan", n |-> 0]
Undef == [k |-> "undef", n |-> 0]
Nul == [k |-> "null", n |-> 0]
Str == [k |-> "str", n |-> 0]

\* ToBoolean of a coordinate value
TruthyVal(v) ==
    CASE v.k = "num" -> v.n # 0
      [] v.k = "str" -> TRUE
      [] OTHER -> FALSE

\* v || 0
OrZero(v) == IF TruthyVal(v) THEN v ELSE Num(0)

\* ToNumber
ToNumber(v) ==
    CASE v.k = "num" -> v
      [] v.k = "null" -> Num(0)
      [] OTHER -> NaN

\* Math.min(a, v) for a number a
MathMin(a, v) ==
    LET w == ToNumber(v)
    IN IF w.k = "nan" THEN NaN ELSE Num(IF a < w.n THEN a ELSE w.n)

\* Math.max(a, v) for a number a
MathMax(a, v) ==
    LET w == ToNumber(v)
    IN IF w.k = "nan" THEN NaN ELSE Num(IF a > w.n THEN a ELSE w.n)

\* Math.max(0, Math.min(hi, v || 0))
Clamp(hi, v) == MathMax(0, MathMin(hi, OrZero(v)))

\* ToBoolean of player.room: null and the empty string are falsy
Truthy(r) == r # Null /\ r # ""

\* slice(0, n + 1): the limit off by one
SliceOneMore(text, n) ==
    SubSeq(text, 1, IF Len(text) < n + 1 THEN Len(text) ELSE n + 1)

\* text.slice(0, n) of a string given as the sequence of its units
Slice(text, n) == SubSeq(text, 1, IF Len(text) < n THEN Len(text) ELSE n)

---------------------------------------------------------------------------
(* Inputs *)

\* two connections; a socket id is its first six characters and the rest
SocketIds == {<<"abc123", 1>>, <<"abc123", 2>>}

\* socket.id.slice(0, 6)
IdSlice(id) == id[1]

\* room keys a client may send: no validation, the empty string included
RoomIds == {"", "r1"}

\* a username is the sequence of its pieces; the empty one is falsy
DefaultName(id) == <<"Player_", IdSlice(id)>>

DefaultAvatar == [body |-> "#3b82f6", head |-> "#fbbf24", accessory |-> "none"]
CustomAvatar == [body |-> "#000000", head |-> "#ffffff", accessory |-> "hat"]
NoAvatar == [body |-> Undefined, head |-> Undefined, accessory |-> Undefined]

\* register-player payloads: one connection names itself and leaves the
\* avatar out, the other sends an avatar and no username
RegisterPayloads(id) ==
    IF id[2] = 1
    THEN { [username |-> <<"ann">>, avatar |-> NoAvatar] }
    ELSE { [username |-> <<>>, avatar |-> CustomAvatar] }

\* a text of n units
Text(n) == [i \in 1..n |-> i % 2]

\* what the clients send while the sessions interleave: one move, one text
MovePayloads == { [x |-> Num(9999), y |-> Num(-50)] }
ChatTexts == { Text(MaxChat + MaxExtra) }

\* the coordinates and texts the handlers are tried on one by one
Coordinates ==
    {Num(n) : n \in {-50, -1, 0, 1, 200, 9999}
                     \cup ((MaxY - 1)..(MaxY + 1)) \cup ((MaxX - 1)..(MaxX + 1))}
    \cup {Undef, Nul, Str}
AllMovePayloads ==
    {[x |-> c, y |-> Num(200)] : c \in Coordinates}
    \cup {[x |-> Num(200), y |-> c] : c \in Coordinates}
    \cup {[x |-> Num(9999), y |-> Num(-50)], [x |-> Str, y |-> Undef]}
AllChatTexts ==
    {Text(n) : n \in {0, 1} \cup ((MaxChat - 1)..(MaxChat + MaxExtra))}

\* what save-game is sent: two games that differ in their title
GamePayloads ==
    {[title |-> ti, description |-> "d", gameData |-> "g"] : ti \in {"a", "b"}}

---------------------------------------------------------------------------
(* Maps *)

MapSet(m, k, v) == [x \in DOMAIN m \cup {k} |-> IF x = k THEN v ELSE m[x]]
MapDelete(m, k) == [x \in DOMAIN m \ {k} |-> m[x]]
MapHas(m, k) == k \in DOMAIN m

\* games is a Map read in insertion order: a sequence of key and value
GamesHas(g, k) == \E i \in 1..Len(g) : g[i].key = k
\* games.set(k, v): a new key goes last, a present key keeps its place
GamesSet(g, k, v) ==
    IF GamesHas(g, k)
    THEN [i \in 1..Len(g) |-> IF g[i].key = k THEN [key |-> k, value |-> v]
                                              ELSE g[i]]
    ELSE Append(g, [key |-> k, value |-> v])
\* Array.from(games.values())
GamesValues(g) == [i \in 1..Len(g) |-> g[i].value]

\* the members of a room: rooms.get(r), the empty set when absent
Members(rs, r) == IF MapHas(rs, r) THEN rs[r] ELSE {}

---------------------------------------------------------------------------
(* Transport *)

\* socket.leave(room)
SocketLeave(sb, id, room) == [sb EXCEPT ![id] = @ \ {room}]
\* socket.join(room)
SocketJoin(sb, id, room) == [sb EXCEPT ![id] = @ \cup {room}]
\* the sockets of a transport room
Subscribers(sb, room) == {s \in SocketIds : room \in sb[s]}

\* socket.emit(type, data)
Unicast(id, type, data) ==
    [type |-> type, room |-> Null, to |-> {id}, data |-> data]
\* socket.to(room).emit(type, data): the room without the sender
ToRoom(sb, id, room, type, data) ==
    [type |-> type, room |-> room, to |-> Subscribers(sb, room) \ {id},
     data |-> data]
\* io.to(room).emit(type, data): the whole room
IoToRoom(sb, room, type, data) ==
    [type |-> type, room |-> room, to |-> Subscribers(sb, room), data |-> data]

---------------------------------------------------------------------------
(* The state a handler works on, and what it leaves *)

Cur == [players |-> players, rooms |-> rooms, subs |-> subs, games |-> games,
        out |-> <<>>]

\* player.room at the entry of a handler, for the record in ev
EntryRoom(id) == IF MapHas(players, id) THEN players[id].room ELSE Undefined

---------------------------------------------------------------------------
(* The handlers, as functions of the state they work on *)

\* the public fields player-joined carries
JoinedData(p) ==
    [id |-> p.id, username |-> p.username, avatar |-> p.avatar,
     x |-> p.x, y |-> p.y]

\* register-player that keeps the room of the entry it overwrites
RegisterPlayerKeepRoom(st, id, playerData, t) ==
    LET player == [id |-> id,
                   username |-> IF playerData.username # <<>>
                                THEN playerData.username ELSE DefaultName(id),
                   avatar |-> IF playerData.avatar # NoAvatar
                              THEN playerData.avatar ELSE DefaultAvatar,
                   x |-> Num(StartX),
                   y |-> Num(StartY),
                   room |-> IF MapHas(st.players, id)
                            THEN st.players[id].room ELSE Null,
                   lastUpdate |-> t]
    IN [st EXCEPT !.players = MapSet(st.players, id, player),
                  !.out = Append(st.out,
                                 Unicast(id, "registration-confirmed", id))]

\* register-player
RegisterPlayer(st, id, playerData, t) ==
    LET player == [id |-> id,
                   username |-> IF playerData.username # <<>>
                                THEN playerData.username ELSE DefaultName(id),
                   avatar |-> IF playerData.avatar # NoAvatar
                              THEN playerData.avatar ELSE DefaultAvatar,
                   x |-> Num(StartX),
                   y |-> Num(StartY),
                   room |-> Null,
                   lastUpdate |-> t]
    IN [st EXCEPT !.players = MapSet(st.players, id, player),
                  !.out = Append(st.out,
                                 Unicast(id, "registration-confirmed", id))]

\* the room's Set without the socket, the emptied room left in the Map
RemoveFromRoomKeepEmpty(st, id, room) ==
    IF ~MapHas(st.rooms, room) THEN st
    ELSE LET left == st.rooms[room] \ {id}
         IN IF left = {}
            THEN [st EXCEPT !.rooms = MapSet(st.rooms, room, left)]
            ELSE [st EXCEPT !.rooms = MapSet(st.rooms, room, left),
                            !.out = Append(st.out,
                                ToRoom(st.subs, id, room, "player-left", id))]

\* the room's Set without the socket: the room deleted when that empties it,
\* player-left sent to the rest of the room otherwise
RemoveFromRoom(st, id, room) ==
    IF ~MapHas(st.rooms, room) THEN st
    ELSE LET left == st.rooms[room] \ {id}
         IN IF left = {}
            THEN [st EXCEPT !.rooms = MapDelete(st.rooms, room)]
            ELSE [st EXCEPT !.rooms = MapSet(st.rooms, room, left),
                            !.out = Append(st.out,
                                ToRoom(st.subs, id, room, "player-left", id))]

\* join-room, lines 113-125: leave the previous room
JoinLeavePrevious(st, id) ==
    LET player == st.players[id]
    IN IF Truthy(player.room)
       THEN RemoveFromRoom(
                [st EXCEPT !.subs = SocketLeave(st.subs, id, player.room)],
                id, player.room)
       ELSE st

\* join-room, lines 127-135: join the new room
JoinEnter(st, id, roomId, t) ==
    [st EXCEPT !.subs = SocketJoin(st.subs, id, roomId),
               !.players = [st.players EXCEPT ![id].room = roomId,
                                              ![id].lastUpdate = t],
               !.rooms = MapSet(st.rooms, roomId,
                                Members(st.rooms, roomId) \cup {id})]

\* join-room, lines 138-141: the other members that have a player entry
RoomPlayers(st, id, roomId) ==
    {st.players[m] : m \in {i \in st.rooms[roomId] \ {id} : MapHas(st.players, i)}}

\* the notice sent before the roster
JoinAnnounceNoticeFirst(st, id, roomId) ==
    [st EXCEPT !.out =
        st.out \o
        << ToRoom(st.subs, id, roomId, "player-joined",
                  JoinedData(st.players[id])),
           Unicast(id, "players-update", RoomPlayers(st, id, roomId)) >>]

\* join-room, lines 143-150: the roster, then the notice
JoinAnnounce(st, id, roomId) ==
    [st EXCEPT !.out =
        st.out \o
        << Unicast(id, "players-update", RoomPlayers(st, id, roomId)),
           ToRoom(st.subs, id, roomId, "player-joined",
                  JoinedData(st.players[id])) >>]

\* join-room without the return after the error
JoinRoomNoReturn(st, id, roomId, t) ==
    IF ~MapHas(st.players, id)
    THEN [st EXCEPT !.out = Append(st.out,
                                   Unicast(id, "error", "Player not registered")),
                    !.subs = SocketJoin(st.subs, id, roomId),
                    !.rooms = MapSet(st.rooms, roomId,
                                     Members(st.rooms, roomId) \cup {id})]
    ELSE JoinAnnounce(JoinEnter(JoinLeavePrevious(st, id), id, roomId, t),
                      id, roomId)

\* join-room
JoinRoom(st, id, roomId, t) ==
    IF ~MapHas(st.players, id)
    THEN [st EXCEPT !.out = Append(st.out,
                                   Unicast(id, "error", "Player not registered"))]
    ELSE JoinAnnounce(JoinEnter(JoinLeavePrevious(st, id), id, roomId, t),
                      id, roomId)

\* leave-room
LeaveRoom(st, id) ==
    IF ~MapHas(st.players, id) \/ ~Truthy(st.players[id].room) THEN st
    ELSE LET room == st.players[id].room
             s1 == RemoveFromRoom(
                       [st EXCEPT !.subs = SocketLeave(st.subs, id, room)],
                       id, room)
         IN [s1 EXCEPT !.players = [s1.players EXCEPT ![id].room = Null]]

\* player-move that only asks for the player entry, not for its room
PlayerMoveAnyRoom(st, id, data, t) ==
    IF ~MapHas(st.players, id) THEN st
    ELSE LET x == Clamp(MaxX, data.x)
             y == Clamp(MaxY, data.y)
         IN [st EXCEPT !.players = [st.players EXCEPT ![id].x = x,
                                                      ![id].y = y,
                                                      ![id].lastUpdate = t],
                       !.out = Append(st.out,
                           ToRoom(st.subs, id, st.players[id].room,
                                  "player-moved",
                                  [id |-> id, x |-> x, y |-> y,
                                   timestamp |-> t]))]

\* player-move
PlayerMove(st, id, data, t) ==
    IF ~MapHas(st.players, id) \/ ~Truthy(st.players[id].room) THEN st
    ELSE LET x == Clamp(MaxX, data.x)
             y == Clamp(MaxY, data.y)
         IN [st EXCEPT !.players = [st.players EXCEPT ![id].x = x,
                                                      ![id].y = y,
                                                      ![id].lastUpdate = t],
                       !.out = Append(st.out,
                           ToRoom(st.subs, id, st.players[id].room,
                                  "player-moved",
                                  [id |-> id, x |-> x, y |-> y,
                                   timestamp |-> t]))]

\* chat-message that counts as activity of the sender
ChatMessageTouch(st, id, text, t) ==
    IF ~MapHas(st.players, id) \/ ~Truthy(st.players[id].room) THEN st
    ELSE LET player == st.players[id]
             message == [id |-> t, playerId |-> id,
                         username |-> player.username,
                         message |-> Slice(text, MaxChat),
                         timestamp |-> t]
         IN [st EXCEPT !.players = [st.players EXCEPT ![id].lastUpdate = t],
                       !.out = Append(st.out,
                 IoToRoom(st.subs, player.room, "chat-message", message))]

\* chat-message
ChatMessage(st, id, text, t) ==
    IF ~MapHas(st.players, id) \/ ~Truthy(st.players[id].room) THEN st
    ELSE LET player == st.players[id]
             message == [id |-> t, playerId |-> id,
                         username |-> player.username,
                         message |-> Slice(text, MaxChat),
                         timestamp |-> t]
         IN [st EXCEPT !.out = Append(st.out,
                 IoToRoom(st.subs, player.room, "chat-message", message))]

\* the id save-game makes: the clock and the first six characters
GameId(t, id) == [prefix |-> "game_", time |-> t, slice |-> IdSlice(id)]

\* new Date().toISOString(): the same instant, written out
ToISOString(t) == [iso |-> t]

\* save-game
SaveGame(st, id, gameData, t) ==
    IF ~MapHas(st.players, id) THEN st
    ELSE LET player == st.players[id]
             gameId == GameId(t, id)
             game == [id |-> gameId,
                      title |-> gameData.title,
                      description |-> gameData.description,
                      creator |-> player.username,
                      createdAt |-> ToISOString(t),
                      gameData |-> gameData.gameData,
                      plays |-> 0,
                      likes |-> 0]
         IN [st EXCEPT !.games = GamesSet(st.games, gameId, game),
                       !.out = Append(st.out,
                           Unicast(id, "game-saved",
                                   [gameId |-> gameId,
                                    message |-> "Game saved successfully!"]))]

\* get-games
GetGames(st, id) ==
    [st EXCEPT !.out = Append(st.out,
                              Unicast(id, "games-list", GamesValues(st.games)))]

\* disconnect: the transport has taken the socket out of its rooms already
Disconnect(st, id) ==
    IF ~MapHas(st.players, id) THEN st
    ELSE LET player == st.players[id]
             s1 == IF Truthy(player.room)
                   THEN RemoveFromRoom(st, id, player.room)
                   ELSE st
         IN [s1 EXCEPT !.players = MapDelete(s1.players, id)]

\* the reaper's test of one player
Idle(player, t) == t - player.lastUpdate > Timeout

\* the reaper's eviction of one player: silent
Evict(st, id) ==
    LET player == st.players[id]
        room == player.room
        rs == IF Truthy(room) /\ MapHas(st.rooms, room)
              THEN LET left == st.rooms[room] \ {id}
                   IN IF left = {} THEN MapDelete(st.rooms, room)
                      ELSE MapSet(st.rooms, room, left)
              ELSE st.rooms
    IN [st EXCEPT !.rooms = rs, !.players = MapDelete(st.players, id)]

\* the reaper's loop over the entries of players
RECURSIVE ReapLoop(_, _, _)
ReapLoop(st, todo, t) ==
    IF todo = {} THEN st
    ELSE LET id == CHOOSE i \in todo : TRUE
             s1 == IF Idle(st.players[id], t) THEN Evict(st, id) ELSE st
         IN ReapLoop(s1, todo \ {id}, t)

\* one reaper callback
Reap(st, t) == ReapLoop(st, DOMAIN st.players, t)

---------------------------------------------------------------------------
(* The steps *)

Event(op, id, arg) == [op |-> op, id |-> id, arg |-> arg, old |-> EntryRoom(id)]

\* what a handler leaves becomes the next state
Commit(st) ==
    /\ players' = st.players
    /\ rooms' = st.rooms
    /\ subs' = st.subs
    /\ games' = st.games
    /\ out' = st.out

\* no callback is being looked at statement by statement
NoRun == [op |-> "none"]

\* io.on('connection')
Connect(id) ==
    /\ conn[id] = "new"
    /\ conn' = [conn EXCEPT ![id] = "open"]
    /\ ev' = Event("connection", id, Null)
    /\ Commit(Cur)
    /\ UNCHANGED <<now, nextReap, run>>

OnRegisterPlayer(id, playerData) ==
    /\ conn[id] = "open"
    /\ ev' = Event("register-player", id, playerData)
    /\ Commit(RegisterPlayer(Cur, id, playerData, now))
    /\ UNCHANGED <<conn, now, nextReap, run>>

OnJoinRoom(id, roomId) ==
    /\ conn[id] = "open"
    /\ ev' = Event("join-room", id, roomId)
    /\ Commit(JoinRoom(Cur, id, roomId, now))
    /\ UNCHANGED <<conn, now, nextReap, run>>

OnLeaveRoom(id) ==
    /\ conn[id] = "open"
    /\ ev' = Event("leave-room", id, Null)
    /\ Commit(LeaveRoom(Cur, id))
    /\ UNCHANGED <<conn, now, nextReap, run>>

OnPlayerMove(id, data) ==
    /\ conn[id] = "open"
    /\ ev' = Event("player-move", id, data)
    /\ Commit(PlayerMove(Cur, id, data, now))
    /\ UNCHANGED <<conn, now, nextReap, run>>

OnChatMessage(id, text) ==
    /\ conn[id] = "open"
    /\ ev' = Event("chat-message", id, text)
    /\ Commit(ChatMessage(Cur, id, text, now))
    /\ UNCHANGED <<conn, now, nextReap, run>>

OnSaveGame(id, gameData) ==
    /\ conn[id] = "open"
    /\ ev' = Event("save-game", id, gameData)
    /\ Commit(SaveGame(Cur, id, gameData, now))
    /\ UNCHANGED <<conn, now, nextReap, run>>

OnGetGames(id) ==
    /\ conn[id] = "open"
    /\ ev' = Event("get-games", id, Null)
    /\ Commit(GetGames(Cur, id))
    /\ UNCHANGED <<conn, now, nextReap, run>>

OnDisconnect(id) ==
    /\ conn[id] = "open"
    /\ conn' = [conn EXCEPT ![id] = "closed"]
    /\ ev' = Event("disconnect", id, Null)
    /\ Commit(Disconnect([Cur EXCEPT !.subs = [subs EXCEPT ![id] = {}]], id))
    /\ UNCHANGED <<now, nextReap, run>>

\* the setInterval callback
Reaper ==
    /\ now >= nextReap
    /\ nextReap' = now + ReapInterval
    /\ ev' = [op |-> "reaper", id |-> <<>>, arg |-> Null, old |-> Undefined]
    /\ Commit(Reap(Cur, now))
    /\ UNCHANGED <<conn, now, run>>

\* time passes: a millisecond, or a reaper period
Advance(d) ==
    /\ \/ d = 1 /\ now % ReapInterval < MaxSmall
       \/ d = ReapInterval /\ now \div ReapInterval < MaxBig
    /\ now' = now + d
    /\ ev' = [op |-> "clock", id |-> <<>>, arg |-> Null, old |-> Undefined]
    /\ out' = <<>>
    /\ UNCHANGED <<players, rooms, conn, subs, nextReap, games, run>>

Init ==
    /\ players = <<>>
    /\ rooms = <<>>
    /\ conn = [s \in SocketIds |-> "new"]
    /\ subs = [s \in SocketIds |-> {}]
    /\ now = 0
    /\ nextReap = ReapInterval
    /\ games = <<>>
    /\ out = <<>>
    /\ ev = [op |-> "listen", id |-> <<>>, arg |-> Null, old |-> Undefined]
    /\ run = NoRun

Next ==
    \/ \E id \in SocketIds : Connect(id)
    \/ \E id \in SocketIds : \E pd \in RegisterPayloads(id) :
           OnRegisterPlayer(id, pd)
    \/ \E id \in SocketIds, r \in RoomIds : OnJoinRoom(id, r)
    \/ \E id \in SocketIds : OnLeaveRoom(id)
    \/ \E id \in SocketIds, d \in MovePayloads : OnPlayerMove(id, d)
    \/ \E id \in SocketIds, t \in ChatTexts : OnChatMessage(id, t)
    \/ \E id \in SocketIds : OnDisconnect(id)
    \/ Reaper
    \/ \E d \in {1, ReapInterval} : Advance(d)

Spec == Init /\ [][Next]_vars

\* the handlers of player-move and chat-message on every input, for two
\* players that register and meet in one room
NextData ==
    \/ \E id \in SocketIds : Connect(id)
    \/ \E id \in SocketIds : \E pd \in RegisterPayloads(id) :
           OnRegisterPlayer(id, pd)
    \/ \E id \in SocketIds : OnJoinRoom(id, "r1")
    \/ \E id \in SocketIds, d \in AllMovePayloads : OnPlayerMove(id, d)
    \/ \E id \in SocketIds, t \in AllChatTexts : OnChatMessage(id, t)

SpecData == Init /\ [][NextData]_vars

\* the game catalog: connections that register, save games and list them
\* within a few milliseconds
NextGames ==
    \/ \E id \in SocketIds : Connect(id)
    \/ \E id \in SocketIds : \E pd \in RegisterPayloads(id) :
           OnRegisterPlayer(id, pd)
    \/ \E id \in SocketIds, g \in GamePayloads : OnSaveGame(id, g)
    \/ \E id \in SocketIds : OnGetGames(id)
    \/ Advance(1)

SpecGames == Init /\ [][NextGames]_vars

\* the clients fall silent: no event arrives from QuietFrom on, while the
\* clock goes on, a reaper period at a time, until two full periods have
\* passed after the last moment an event could arrive
QuietFrom == (MaxBig + 1) * ReapInterval
QuietEnd == (MaxBig + 3) * ReapInterval

Later ==
    /\ now < QuietEnd
    /\ now' = now + ReapInterval
    /\ ev' = [op |-> "clock", id |-> <<>>, arg |-> Null, old |-> Undefined]
    /\ out' = <<>>
    /\ UNCHANGED <<players, rooms, conn, subs, nextReap, games, run>>

NextQuiet ==
    \/ now < QuietFrom /\ Next
    \/ Later
    \/ Reaper

\* time passes and the interval timer fires, whatever the clients do
SpecQuiet == Init /\ [][NextQuiet]_vars /\ WF_vars(Later) /\ WF_vars(Reaper)

\* every handler that can touch a player entry, for players that meet in one
\* room while the clock runs on in reaper periods and the reaper ticks; the
\* catalog takes its first game
NextActivity ==
    \/ \E id \in SocketIds : Connect(id)
    \/ \E id \in SocketIds : \E pd \in RegisterPayloads(id) :
           OnRegisterPlayer(id, pd)
    \/ \E id \in SocketIds : OnJoinRoom(id, "r1")
    \/ \E id \in SocketIds : OnLeaveRoom(id)
    \/ \E id \in SocketIds, d \in MovePayloads : OnPlayerMove(id, d)
    \/ \E id \in SocketIds, t \in ChatTexts : OnChatMessage(id, t)
    \/ \E id \in SocketIds, g \in GamePayloads :
           games = <<>> /\ OnSaveGame(id, g)
    \/ \E id \in SocketIds : OnGetGames(id)
    \/ Reaper
    \/ now < QuietFrom /\ Later

SpecActivity == Init /\ [][NextActivity]_vars

---------------------------------------------------------------------------
(* The callbacks that touch both registries, one statement at a time *)

\* a callback is on the stack: Node starts no other before it returns
OnStack == run.op # "none" /\ run.stack

\* the state the next statement of the callback works on
Mid == [Cur EXCEPT !.out = out]

\* join-room: the guard and the leave of the previous room, the entry into
\* the new room, the two emits
JoinStatement(st, r) ==
    IF r.pc = 1
    THEN IF ~MapHas(st.players, r.id)
         THEN [st |-> JoinRoom(st, r.id, r.arg, r.t), done |-> TRUE]
         ELSE [st |-> JoinLeavePrevious(st, r.id), done |-> FALSE]
    ELSE IF r.pc = 2
    THEN [st |-> JoinEnter(st, r.id, r.arg, r.t), done |-> FALSE]
    ELSE [st |-> JoinAnnounce(st, r.id, r.arg), done |-> TRUE]

\* leave-room: the guard and the removal from the room, then room = null
LeaveStatement(st, r) ==
    IF r.pc = 1
    THEN IF ~MapHas(st.players, r.id) \/ ~Truthy(st.players[r.id].room)
         THEN [st |-> st, done |-> TRUE]
         ELSE LET room == st.players[r.id].room
              IN [st |-> RemoveFromRoom(
                             [st EXCEPT !.subs = SocketLeave(st.subs, r.id, room)],
                             r.id, room),
                  done |-> FALSE]
    ELSE [st |-> [st EXCEPT !.players = [st.players EXCEPT ![r.id].room = Null]],
          done |-> TRUE]

\* disconnect: the guard and the removal from the room, then players.delete
DisconnectStatement(st, r) ==
    IF r.pc = 1
    THEN IF ~MapHas(st.players, r.id)
         THEN [st |-> st, done |-> TRUE]
         ELSE LET room == st.players[r.id].room
              IN [st |-> IF Truthy(room) THEN RemoveFromRoom(st, r.id, room)
                                         ELSE st,
                  done |-> FALSE]
    ELSE [st |-> [st EXCEPT !.players = MapDelete(st.players, r.id)],
          done |-> TRUE]

Statement(st, r) ==
    CASE r.op = "join-room" -> JoinStatement(st, r)
      [] r.op = "leave-room" -> LeaveStatement(st, r)
      [] r.op = "disconnect" -> DisconnectStatement(st, r)

\* the transport calls the handler of join-room, leave-room or disconnect:
\* its first statement runs
Call(op, id, arg) ==
    /\ run.op = "none"
    /\ conn[id] = "open"
    /\ conn' = IF op = "disconnect" THEN [conn EXCEPT ![id] = "closed"] ELSE conn
    /\ ev' = Event(op, id, arg)
    /\ LET entry == IF op = "disconnect"
                    THEN [Cur EXCEPT !.subs = [subs EXCEPT ![id] = {}]]
                    ELSE Cur
           r == [op |-> op, id |-> id, arg |-> arg, t |-> now, pc |-> 1,
                 todo |-> {}, stack |-> TRUE, snap |-> entry]
           nx == Statement(entry, r)
       IN /\ Commit(nx.st)
          /\ run' = IF nx.done THEN NoRun ELSE [r EXCEPT !.pc = 2]
    /\ UNCHANGED <<now, nextReap>>

\* the next statement of the handler on the stack
Proceed ==
    /\ run.op \in {"join-room", "leave-room", "disconnect"}
    /\ LET nx == Statement(Mid, run)
       IN /\ Commit(nx.st)
          /\ run' = IF nx.done THEN NoRun ELSE [run EXCEPT !.pc = @ + 1]
    /\ UNCHANGED <<conn, now, nextReap, ev>>

\* the reaper's loop that gives up the stack between two entries, as an
\* await in its body would
ReapContinueAwait(r, left) == [r EXCEPT !.todo = left, !.stack = FALSE]

\* the reaper's for loop goes on to the next entry within the same callback
ReapContinue(r, left) == [r EXCEPT !.todo = left]

\* the timer calls the reaper: now is read and the loop is entered
ReapCall ==
    /\ run.op = "none"
    /\ now >= nextReap
    /\ nextReap' = now + ReapInterval
    /\ ev' = [op |-> "reaper", id |-> <<>>, arg |-> Null, old |-> Undefined]
    /\ out' = <<>>
    /\ run' = IF DOMAIN players = {} THEN NoRun
              ELSE [op |-> "reaper", id |-> <<>>, arg |-> Null, t |-> now,
                    pc |-> 1, todo |-> DOMAIN players, stack |-> TRUE,
                    snap |-> Cur]
    /\ UNCHANGED <<players, rooms, conn, subs, now, games>>

\* one pass of the reaper's loop body, for an entry not yet visited
ReapEntry ==
    /\ run.op = "reaper"
    /\ \E id \in run.todo :
           LET s1 == IF MapHas(players, id) /\ Idle(players[id], run.t)
                     THEN Evict(Mid, id) ELSE Mid
               left == run.todo \ {id}
           IN /\ Commit(s1)
              /\ run' = IF left = {} THEN NoRun ELSE ReapContinue(run, left)
    /\ UNCHANGED <<conn, now, nextReap, ev>>

\* the event loop: a callback starts when the stack is empty, and the
\* callback on the stack runs its statements
NextLoop ==
    \/ /\ ~OnStack
       /\ \/ \E id \in SocketIds : Connect(id)
          \/ \E id \in SocketIds : \E pd \in RegisterPayloads(id) :
                 OnRegisterPlayer(id, pd)
          \/ \E id \in SocketIds, d \in MovePayloads : OnPlayerMove(id, d)
          \/ \E id \in SocketIds, t \in ChatTexts : OnChatMessage(id, t)
          \/ \E d \in {1, ReapInterval} : Advance(d)
    \/ \E id \in SocketIds, r \in RoomIds : Call("join-room", id, r)
    \/ \E id \in SocketIds : Call("leave-room", id, Null)
    \/ \E id \in SocketIds : Call("disconnect", id, Null)
    \/ Proceed
    \/ ReapCall
    \/ ReapEntry

SpecLoop == Init /\ [][NextLoop]_vars

---------------------------------------------------------------------------
(* The claims *)

\* the rooms whose member set holds the socket
RoomsOf(id) == {r \in DOMAIN rooms : id \in rooms[r]}

\* the types of the events of out, in order
OutTypes == [i \in 1..Len(out) |-> out[i].type]

\* C1: a room key is in the Room Registry if and only if its member set is
\* not empty; no room entry ever maps to the empty set
C1_RoomIffNonEmpty ==
    /\ DOMAIN rooms \subseteq RoomIds
    /\ \A r \in RoomIds : MapHas(rooms, r) <=> Members(rooms, r) # {}

\* C1 witness: the sole occupant of r1 has left it and r1 is gone, while
\* another room stays
C1_Witness ==
    /\ ev.op = "leave-room"
    /\ ev.old = "r1"
    /\ ~MapHas(rooms, "r1")
    /\ MapHas(rooms, "")

\* C2: for every player, player.room is not null if and only if the player's
\* id is in exactly one room's member set, that of rooms[player.room], and
\* the id is never in more than one member set
C2_RoomFieldIffMember ==
    \A p \in DOMAIN players :
        /\ Cardinality(RoomsOf(p)) <= 1
        /\ players[p].room # Null <=> RoomsOf(p) = {players[p].room}

\* a stored coordinate within [0, hi]
InRange(v, hi) == v.k = "num" /\ 0 <= v.n /\ v.n <= hi

\* the claimed result: a missing or non-numeric input counts as 0, then the
\* value is clamped to [0, hi]
ClaimedClamp(hi, v) ==
    LET n == IF v.k = "num" THEN v.n ELSE 0
    IN Num(IF n < 0 THEN 0 ELSE IF n > hi THEN hi ELSE n)

\* C3: every stored position lies in [0,750] x [0,350], and after a
\* player-move the stored x and y are the inputs clamped, a missing or
\* non-numeric input counting as 0
C3_PositionClamped ==
    /\ \A p \in DOMAIN players :
           InRange(players[p].x, 750) /\ InRange(players[p].y, 350)
    /\ (ev.op = "player-move" /\ ev.old = "r1") =>
           /\ players[ev.id].x = ClaimedClamp(750, ev.arg.x)
           /\ players[ev.id].y = ClaimedClamp(350, ev.arg.y)

\* C4: the text a chat-message broadcast carries is the first min(len, 200)
\* units of the text sent
C4_ChatTruncated ==
    ev.op = "chat-message" =>
        \A i \in 1..Len(out) :
            LET sent == ev.arg
                got == out[i].data.message
                n == IF Len(sent) < 200 THEN Len(sent) ELSE 200
            IN /\ out[i].type = "chat-message"
               /\ Len(got) = n
               /\ \A j \in 1..n : got[j] = sent[j]

\* C4 witness: a text of more than 200 units was broadcast cut to 200
C4_Witness ==
    /\ ev.op = "chat-message"
    /\ Len(ev.arg) > 200
    /\ Len(out) = 1
    /\ out[1].to # {}
    /\ Len(out[1].data.message) = 200

\* C5: a join-room from a connection without a player entry emits exactly
\* one error to the sender and changes neither registry
C5_JoinUnregistered ==
    [][(ev'.op = "join-room" /\ ev'.old = Undefined) =>
           /\ Len(out') = 1
           /\ out'[1].type = "error"
           /\ out'[1].to = {ev'.id}
           /\ players' = players
           /\ rooms' = rooms]_vars

\* C5 witness: a connection the reaper evicted (it has no entry and is still
\* subscribed to the room it was in) asked to join a room that a registered
\* player is in, and got the error
C5_Witness ==
    /\ ev.op = "join-room"
    /\ ev.old = Undefined
    /\ ~MapHas(players, ev.id)
    /\ subs[ev.id] # {}
    /\ \E q \in Members(rooms, ev.arg) : MapHas(players, q)
    /\ OutTypes = <<"error">>

\* the joiner, the room joined, and the room's other members after the join
C6_RosterExact ==
    LET P == ev.id
        R == ev.arg
        others == Members(rooms, R) \ {P}
        roster == out[Len(out) - 1]
    IN /\ roster.type = "players-update"
       /\ roster.to = {P}
       /\ {q.id : q \in roster.data} = others

C6_NoticeToAll ==
    LET P == ev.id
        R == ev.arg
        others == Members(rooms, R) \ {P}
        notice == out[Len(out)]
    IN /\ notice.type = "player-joined"
       /\ others \subseteq notice.to
       /\ notice.data = [id |-> P, username |-> players[P].username,
                         avatar |-> players[P].avatar,
                         x |-> players[P].x, y |-> players[P].y]

C6_Joined ==
    /\ ev.id \in Members(rooms, ev.arg)
    /\ players[ev.id].room = ev.arg

\* C6: when a registered player P joins room R, P is sent a roster of
\* exactly the other members of R, every other member of R receives a
\* player-joined notice with P's id, username, avatar and position, and
\* afterwards P is in R's member set and player.room = R
C6_JoinRosterAndNotice ==
    (ev.op = "join-room" /\ ev.old # Undefined) =>
        C6_RosterExact /\ C6_NoticeToAll /\ C6_Joined

\* C7: a join-room of a registered player emits the roster and then the
\* player-joined notice, preceded only by the player-left notice to the room
\* the player had
C7_JoinOrder ==
    (ev.op = "join-room" /\ ev.old # Undefined) =>
        /\ \/ OutTypes = <<"players-update", "player-joined">>
           \/ OutTypes = <<"player-left", "players-update", "player-joined">>
        /\ Len(out) = 3 =>
               /\ out[1].room = ev.old
               /\ out[1].data = ev.id
               /\ Members(rooms, ev.old) # {}
        /\ out[Len(out) - 1].to = {ev.id}
        /\ out[Len(out)].room = ev.arg

\* C7 witness: a join that sent all three events, each to somebody
C7_Witness ==
    /\ ev.op = "join-room"
    /\ Len(out) = 3
    /\ out[1].to # {}
    /\ out[3].to # {}

\* disconnect leaves what leave-room followed by the removal of the entry
\* leaves: the same registries and the same events
C8_SameAsLeaveThenRemove ==
    LET id == ev'.id
        lv == LeaveRoom(Cur, id)
    IN /\ players' = MapDelete(lv.players, id)
       /\ rooms' = lv.rooms
       /\ out' = lv.out

\* without an entry, disconnect changes nothing and emits nothing
C8_NoEntryNoEffect ==
    ev'.old = Undefined =>
        players' = players /\ rooms' = rooms /\ out' = <<>>

\* a player that shared its room: the members that remain receive
\* player-left and are what the room holds afterwards
C8_SharedRoomNotified ==
    LET id == ev'.id
        R == ev'.old
        rest == Members(rooms, R) \ {id}
    IN (R # Undefined /\ R # Null /\ rest # {}) =>
           /\ Len(out') = 1
           /\ out'[1].type = "player-left"
           /\ out'[1].data = id
           /\ rest \subseteq out'[1].to
           /\ MapHas(rooms', R)
           /\ rooms'[R] = rest

\* C8: disconnect is equivalent to leaveRoom followed by the removal of the
\* player entry; the members that remain in a shared room receive
\* player-left and the room holds only them; without an entry, disconnect
\* does nothing
C8_DisconnectAsLeave ==
    [][ev'.op = "disconnect" =>
           /\ C8_SameAsLeaveThenRemove
           /\ C8_NoEntryNoEffect
           /\ C8_SharedRoomNotified]_vars

\* C9: leave-room by a player P whose room is R takes P out of R's member
\* set, deletes R if that empties it and otherwise sends player-left with
\* P's id to the members that remain, sets player.room to null, and leaves
\* every other room and every other player as they were
C9_LeaveRoom ==
    [][(ev'.op = "leave-room" /\ ev'.old # Undefined /\ ev'.old # Null) =>
           LET P == ev'.id
               R == ev'.old
               rest == Members(rooms, R) \ {P}
           IN /\ P \notin Members(rooms', R)
              /\ rest = {} => ~MapHas(rooms', R) /\ out' = <<>>
              /\ rest # {} =>
                     /\ Members(rooms', R) = rest
                     /\ Len(out') = 1
                     /\ out'[1].type = "player-left"
                     /\ out'[1].data = P
                     /\ rest \subseteq out'[1].to
              /\ players'[P].room = Null
              /\ \A r \in RoomIds \ {R} :
                     Members(rooms', r) = Members(rooms, r)
              /\ DOMAIN players' = DOMAIN players
              /\ \A q \in DOMAIN players \ {P} : players'[q] = players[q]]_vars

\* the players a reaper tick finds idle
C10_IdleAt(t) == {p \in DOMAIN players : t - players[p].lastUpdate > 300000}

\* C10: a reaper tick evicts exactly the players idle for longer than the
\* threshold: each leaves its room's member set (an emptied room is deleted)
\* and the Player Registry, nothing is emitted, and every other player keeps
\* its entry and its room membership
C10_ReaperEvicts ==
    [][ev'.op = "reaper" =>
           LET idle == C10_IdleAt(now)
           IN /\ DOMAIN players' = DOMAIN players \ idle
              /\ \A p \in idle :
                     players[p].room # Null =>
                         p \notin Members(rooms', players[p].room)
              /\ \A r \in DOMAIN rooms' : rooms'[r] # {}
              /\ out' = <<>>
              /\ \A q \in DOMAIN players \ idle :
                     /\ players'[q] = players[q]
                     /\ \A r \in RoomIds :
                            q \in Members(rooms', r) <=> q \in Members(rooms, r)]_vars

\* C11: once no more events arrive, with time advancing and the reaper
\* ticking, the Player Registry and the Room Registry are eventually empty
C11_QuietDrains ==
    (now >= QuietFrom) ~> (players = <<>> /\ rooms = <<>>)

\* C12: a player-move from a player whose room is R is delivered as
\* player-moved, with the mover's id, the clamped x and y and the timestamp,
\* to every other member of R and never to the sender
C12_MoveToOthers ==
    [][(ev'.op = "player-move" /\ ev'.old # Undefined /\ ev'.old # Null) =>
           LET P == ev'.id
               R == ev'.old
           IN /\ Len(out') = 1
              /\ out'[1].type = "player-moved"
              /\ out'[1].data = [id |-> P,
                                 x |-> ClaimedClamp(750, ev'.arg.x),
                                 y |-> ClaimedClamp(350, ev'.arg.y),
                                 timestamp |-> players'[P].lastUpdate]
              /\ (Members(rooms, R) \ {P}) \subseteq out'[1].to
              /\ P \notin out'[1].to]_vars

\* C13: a chat-message from a player whose room is R is delivered to every
\* member of R, the sender included
C13_ChatToRoom ==
    [][(ev'.op = "chat-message" /\ ev'.old # Undefined /\ ev'.old # Null) =>
           LET P == ev'.id
               R == ev'.old
           IN /\ Len(out') = 1
              /\ out'[1].type = "chat-message"
              /\ out'[1].data.playerId = P
              /\ Members(rooms, R) \subseteq out'[1].to
              /\ P \in out'[1].to]_vars

\* C14: leave-room, player-move and chat-message from a connection without
\* a player entry, or whose player has no room, change neither registry and
\* emit nothing; no handler but join-room ever emits an error event
C14_SilentNoOps ==
    [][/\ (/\ ev'.op \in {"leave-room", "player-move", "chat-message"}
           /\ ev'.old \in {Undefined, Null}) =>
               players' = players /\ rooms' = rooms /\ out' = <<>>
       /\ \A i \in 1..Len(out') :
              out'[i].type = "error" => ev'.op = "join-room"]_vars

\* C14 witness: a registered player without a room has sent player-move,
\* its position and lastUpdate are those of its registration, nothing went out
C14_Witness ==
    /\ ev.op = "player-move"
    /\ ev.old = Null
    /\ out = <<>>
    /\ players[ev.id].x = Num(50)
    /\ players[ev.id].lastUpdate < now

\* the games of the catalog
C15_Stored(g) == {g[i].value : i \in 1..Len(g)}

\* C15: save-game from a registered player stores a game under a fresh id:
\* the catalog grows by exactly one game, every game stored before is still
\* there unchanged, and the sender alone is sent the new id; save-game
\* without a player entry stores nothing and emits nothing
C15_SaveGameFresh ==
    [][ev'.op = "save-game" =>
           IF ev'.old # Undefined
           THEN /\ Len(games') = Len(games) + 1
                /\ C15_Stored(games) \subseteq C15_Stored(games')
                /\ Len(out') = 1
                /\ out'[1].type = "game-saved"
                /\ out'[1].to = {ev'.id}
                /\ ~GamesHas(games, out'[1].data.gameId)
                /\ GamesHas(games', out'[1].data.gameId)
           ELSE games' = games /\ out' = <<>>]_vars

\* what the callback on the stack leaves when it runs as one step from the
\* state it was called in
C16_AtOnce(r) ==
    CASE r.op = "reaper" -> Reap(r.snap, r.t)
      [] r.op = "join-room" -> JoinRoom(r.snap, r.id, r.arg, r.t)
      [] r.op = "leave-room" -> LeaveRoom(r.snap, r.id)
      [] r.op = "disconnect" -> Disconnect(r.snap, r.id)

\* C16: every handler and every reaper tick runs to completion as one atomic
\* step on the registries: while a callback is between its statements every
\* step is its own, so nothing else reads or writes the registries between
\* the reaper's scan and its evictions or between the statements of a
\* join-room, leave-room or disconnect, and what the callback leaves is what
\* it leaves when run at once from the state it was called in
C16_Serialized ==
    [][run.op # "none" =>
           /\ run' # run
           /\ run'.op \in {"none", run.op}
           /\ run'.op = "none" =>
                  LET whole == C16_AtOnce(run)
                  IN /\ players' = whole.players
                     /\ rooms' = whole.rooms
                     /\ subs' = whole.subs
                     /\ games' = whole.games
                     /\ out' = whole.out]_vars

\* C16 witness: the reaper has evicted one idle player and has another entry
\* still to visit, whose connection is open
C16_Witness ==
    /\ run.op = "reaper"
    /\ DOMAIN players # DOMAIN run.snap.players
    /\ \E id \in run.todo : conn[id] = "open"

\* C17: register-player creates or overwrites the sender's entry with room
\* null and lastUpdate the current time, acknowledges to the sender alone,
\* and leaves every room as it was, the sender's id still in the member set
\* of a room it was in
C17_RegisterFrame ==
    [][ev'.op = "register-player" =>
           LET id == ev'.id
           IN /\ DOMAIN players' = DOMAIN players \cup {id}
              /\ players'[id].room = Null
              /\ players'[id].lastUpdate = now
              /\ \A q \in DOMAIN players \ {id} : players'[q] = players[q]
              /\ Len(out') = 1
              /\ out'[1].type = "registration-confirmed"
              /\ out'[1].to = {id}
              /\ rooms' = rooms]_vars

\* C17 witness: a member of r1 has registered again: its entry has no room
\* and r1 still holds its id
C17_Witness ==
    /\ ev.op = "register-player"
    /\ ev.old = "r1"
    /\ players[ev.id].room = Null
    /\ ev.id \in Members(rooms, "r1")

\* C18: lastUpdate of an entry is written only by register-player, by a
\* join-room that succeeds and by a player-move of a player in a room, each
\* time for the sender alone; chat-message, leave-room, save-game and
\* get-games leave every lastUpdate as it was, so a reaper tick evicts every
\* player whose last registration, join or move is more than the threshold
\* ago, whatever it has chatted since
C18_ActivityWrites ==
    [][/\ \A p \in DOMAIN players' :
              (p \notin DOMAIN players
                   \/ players'[p].lastUpdate # players[p].lastUpdate) =>
                  /\ ev'.id = p
                  /\ \/ ev'.op = "register-player"
                     \/ ev'.op = "join-room" /\ ev'.old # Undefined
                     \/ ev'.op = "player-move"
                            /\ ev'.old # Undefined /\ ev'.old # Null
       /\ ev'.op \in {"chat-message", "leave-room", "save-game", "get-games"} =>
              /\ DOMAIN players' = DOMAIN players
              /\ \A p \in DOMAIN players :
                     players'[p].lastUpdate = players[p].lastUpdate
       /\ ev'.op = "reaper" =>
              \A p \in DOMAIN players :
                  now - players[p].lastUpdate > 300000 =>
                      p \notin DOMAIN players']_vars

\* C18 witness: a player in r1 has chatted more than the threshold after its
\* last join, the message went out and its lastUpdate is still that old
C18_Witness ==
    /\ ev.op = "chat-message"
    /\ Len(out) = 1
    /\ players[ev.id].room = "r1"
    /\ now - players[ev.id].lastUpdate > 300000

\* C19: every id in a room's member set is a key of the Player Registry,
\* and the id of a connection that has disconnected is in no member set
C19_NoDanglingMembers ==
    /\ \A r \in DOMAIN rooms : rooms[r] \subseteq DOMAIN players
    /\ \A s \in SocketIds : conn[s] = "closed" => RoomsOf(s) = {}

\* C20: a connection is subscribed to the transport room R only if it has a
\* player entry whose room is R, so every receiver of a room broadcast is a
\* current member of that room
C20_SubscribedOnlyToOwnRoom ==
    /\ \A s \in SocketIds : \A R \in subs[s] :
           MapHas(players, s) /\ players[s].room = R
    /\ \A i \in 1..Len(out) :
           out[i].room # Null =>
               \A s \in out[i].to :
                   MapHas(players, s) /\ players[s].room = out[i].room

====
